---- MODULE Spec2Model ----
(***************************************************************************)
(* Edit/cursor context tracker of the code editor (CodeEditor.handleUpdate *)
(* and its debounce timer), the App's hand-over to the Shiny input         *)
(* "cursor_context", and the R backend's output$cursor_info assembler.     *)
(*                                                                         *)
(* Text is modelled as a sequence of one-character strings, offsets are    *)
(* 0-based and ranges half-open as in CodeMirror.                          *)
(***************************************************************************)
EXTENDS Integers, Sequences, FiniteSets, TLC

VARIABLES
    doc,                 \* view.state.doc: the current document
    head,                \* view.state.selection.main.head
    hasConsumer,         \* the onCursorChange prop is passed
    now,                 \* the wall clock as last read by Date.now()
    recentEditsRef,      \* recentEditsRef.current
    debounceTimerRef,    \* debounceTimerRef.current (0 is null)
    timers,              \* the browser's pending timeouts, with their closures
    nextTimerId,         \* the id window.setTimeout returns next
    cursorContext,       \* App: the React state of useShinyInput("cursor_context")
    sendPending,         \* App: useShinyInput's debounced send is scheduled
    lastSent,            \* useShinyInput: the value sent last (deduplication)
    input_cursor_context,\* backend: input$cursor_context
    cursor_info,         \* backend: output$cursor_info, as rendered last
    delivered,           \* history: the calls of onCursorChange, in order
    cancelled,           \* history: ids of timers cleared while pending
    bursts,              \* history: notifications that found no timer pending
    notified,            \* history: number of notifications handled
    lastUpdate,          \* history: the ViewUpdate handled last
    renderLog            \* history: (input, output) of the renders of cursor_info

vars == <<doc, head, hasConsumer, now, recentEditsRef, debounceTimerRef, timers,
          nextTimerId, cursorContext, sendPending, lastSent, input_cursor_context,
          cursor_info, delivered, cancelled, bursts, notified, lastUpdate,
          renderLog>>

----------------------------------------------------------------------------
(* Program constants *)

MAX_EDITS == 20
MAX_AGE_MS == 30000
PREFIX_CHARS == 1000
SUFFIX_CHARS == 200
NUM_TO_SHOW == 5

(* Bounds of the model *)

\* notifications handled in one behaviour
MaxNotifications == 3
\* notifications handled in one behaviour on a long document
MaxLongNotifications == 2
\* values the backend receives in one behaviour of the backend alone
MaxReceived == 3
\* recent edits in the longest list the backend receives
MaxListed == 6
\* sub-ranges of the largest change set offered
MaxRanges == 21
\* values rendered in one behaviour of the assembler alone
MaxRendered == 2
\* how far the longest document of the window check exceeds prefix + suffix
WindowSlack == 2

----------------------------------------------------------------------------
(* Helpers *)

Min(a, b) == IF a < b THEN a ELSE b
Max(a, b) == IF a > b THEN a ELSE b

\* null / NULL
NULL == [null |-> TRUE]

\* Text.sliceString(from, to)
sliceString(d, from, to) == SubSeq(d, from + 1, to)

\* Text.lineAt(pos): the line's 1-based number and the offset of its start
lineAtZeroBased(d, pos) ==
    LET breaks == {i \in 1..pos : d[i] = "\n"}
    IN  [number |-> Cardinality(breaks),
         from   |-> IF breaks = {} THEN 0
                    ELSE CHOOSE i \in breaks : \A j \in breaks : j <= i]

lineAt(d, pos) ==
    LET breaks == {i \in 1..pos : d[i] = "\n"}
    IN  [number |-> 1 + Cardinality(breaks),
         from   |-> IF breaks = {} THEN 0
                    ELSE CHOOSE i \in breaks : \A j \in breaks : j <= i]

\* The document after a change set: the sub-ranges are in pre-change
\* offsets, ascending and disjoint, so they are applied last to first.
RECURSIVE ApplyChanges(_, _)
ApplyChanges(d, changes) ==
    IF changes = <<>> THEN d
    ELSE LET c == changes[Len(changes)]
         IN  ApplyChanges(sliceString(d, 0, c.fromA) \o c.inserted
                            \o sliceString(d, c.toA, Len(d)),
                          SubSeq(changes, 1, Len(changes) - 1))

----------------------------------------------------------------------------
(* The edit history buffer *)

\* update.changes.iterChanges(...): one EditInfo per changed sub-range, pushed
\* in order, all with the timestamp read once before the iteration
PushEditsMerged(buf, update, timestamp) ==
    LET first == update.changes[1]
        last  == update.changes[Len(update.changes)]
    IN  Append(buf, [timestamp |-> timestamp,
                     from      |-> first.fromA,
                     to        |-> last.toA,
                     insert    |-> first.inserted,
                     remove    |-> sliceString(update.startDoc, first.fromA, last.toA)])

PushEditsNoRemove(buf, update, timestamp) ==
    buf \o [i \in 1..Len(update.changes) |->
              [timestamp |-> timestamp,
               from      |-> update.changes[i].fromA,
               to        |-> update.changes[i].toA,
               insert    |-> update.changes[i].inserted,
               remove    |-> <<>>]]

PushEditsPostDoc(buf, update, timestamp) ==
    buf \o [i \in 1..Len(update.changes) |->
              [timestamp |-> timestamp,
               from      |-> update.changes[i].fromA,
               to        |-> update.changes[i].toA,
               insert    |-> update.changes[i].inserted,
               remove    |-> sliceString(update.doc,
                                         Min(update.changes[i].fromA, Len(update.doc)),
                                         Min(update.changes[i].toA, Len(update.doc)))]]

PushEdits(buf, update, timestamp) ==
    buf \o [i \in 1..Len(update.changes) |->
              [timestamp |-> timestamp,
               from      |-> update.changes[i].fromA,
               to        |-> update.changes[i].toA,
               insert    |-> update.changes[i].inserted,
               remove    |-> sliceString(update.startDoc,
                                         update.changes[i].fromA,
                                         update.changes[i].toA)]]

\* the records the iteration has pushed, before the buffer is cut
Pushed(buf, update, timestamp) ==
    LET after == PushEdits(buf, update, timestamp)
    IN  SubSeq(after, Len(buf) + 1, Len(after))

\* if (length > 20) current = current.slice(-20)
KeepLastOffByOne(buf) ==
    IF Len(buf) > MAX_EDITS + 1
    THEN SubSeq(buf, Len(buf) - MAX_EDITS, Len(buf))
    ELSE buf

KeepLast(buf) ==
    IF Len(buf) > MAX_EDITS
    THEN SubSeq(buf, Len(buf) - MAX_EDITS + 1, Len(buf))
    ELSE buf

\* current.filter(edit => edit.timestamp > timestamp - 30000)
DropOldLate(buf, timestamp) ==
    LET cutoffTime == timestamp - 2 * MAX_AGE_MS
    IN  SelectSeq(buf, LAMBDA edit : edit.timestamp > cutoffTime)

DropOld(buf, timestamp) ==
    LET cutoffTime == timestamp - MAX_AGE_MS
    IN  SelectSeq(buf, LAMBDA edit : edit.timestamp > cutoffTime)

\* the "Track document changes" block of handleUpdate
TrackEdits(buf, update, timestamp) ==
    DropOld(KeepLast(PushEdits(buf, update, timestamp)), timestamp)

----------------------------------------------------------------------------
(* The context window *)

PrefixOfOffByOne(d, cursorPos) ==
    LET prefixStart == Max(0, cursorPos - PREFIX_CHARS - 1)
    IN  sliceString(d, prefixStart, cursorPos)

PrefixOf(d, cursorPos) ==
    LET prefixStart == Max(0, cursorPos - PREFIX_CHARS)
    IN  sliceString(d, prefixStart, cursorPos)

SuffixOf(d, cursorPos) ==
    LET suffixEnd == Min(Len(d), cursorPos + SUFFIX_CHARS)
    IN  sliceString(d, cursorPos, suffixEnd)

\* what handleUpdate captures for the timer's closure
SnapshotStale(update, lang) ==
    LET line == lineAt(update.startDoc, Min(update.head, Len(update.startDoc)))
        pos  == Min(update.head, Len(update.startDoc))
    IN  [line |-> line.number, column |-> pos - line.from,
         prefix |-> PrefixOf(update.startDoc, pos),
         suffix |-> SuffixOf(update.startDoc, pos),
         language |-> lang]

Snapshot(update, lang) ==
    LET cursorPos == update.head
        line == lineAt(update.doc, cursorPos)
    IN  [line |-> line.number, column |-> cursorPos - line.from,
         prefix |-> PrefixOf(update.doc, cursorPos),
         suffix |-> SuffixOf(update.doc, cursorPos),
         language |-> lang]

----------------------------------------------------------------------------
(* The debounce timer *)

\* clearTimeout(id)
ClearTimeoutNoop(pending, id) == pending

ClearTimeout(pending, id) == {t \in pending : t.id # id}

----------------------------------------------------------------------------
(* The backend's assembler: output$cursor_info *)

\* the string constants of the render function, as character sequences
WAITING == <<"W", "a", "i", "t", "i", "n", "g", " ", "f", "o", "r", " ", "c", "u", "r", "s", "o", "r", " ", "c", "o", "n", "t", "e", "x", "t", ".", ".", ".">>
LANGUAGE_LABEL == <<"L", "a", "n", "g", "u", "a", "g", "e", ":", " ">>
LINE_LABEL == <<"L", "i", "n", "e", ":", " ">>
COLUMN_LABEL == <<",", " ", "C", "o", "l", "u", "m", "n", ":", " ">>
FIM_PREFIX == <<"<", "|", "f", "i", "m", "_", "p", "r", "e", "f", "i", "x", "|", ">">>
FIM_SUFFIX == <<"<", "|", "f", "i", "m", "_", "s", "u", "f", "f", "i", "x", "|", ">">>
FIM_MIDDLE == <<"<", "|", "f", "i", "m", "_", "m", "i", "d", "d", "l", "e", "|", ">">>
SEPARATOR == <<"-", "-", "-">>
SELECTED_HEADER == <<"S", "E", "L", "E", "C", "T", "E", "D", " ", "T", "E", "X", "T", ":">>
SELECTION_LABEL == <<"S", "e", "l", "e", "c", "t", "i", "o", "n", " ">>
LINE_OPEN == <<" ", "(", "L", "i", "n", "e", " ">>
ARROW == <<" ", "→", " ">>
RANGE_CLOSE == <<")", ":">>
EDITS_HEADER == <<"R", "E", "C", "E", "N", "T", " ", "E", "D", "I", "T", "S", ":">>
EDIT_LABEL == <<"-", " ", "E", "d", "i", "t", " ">>
POS_OPEN == <<" ", "(", "p", "o", "s", " ">>
QUOTE_OPEN == <<")", ":", " ", "\"">>
QUOTE_ARROW == <<"\"", " ", "→", " ", "\"">>
INSERTED_OPEN == <<")", ":", " ", "i", "n", "s", "e", "r", "t", "e", "d", " ", "\"">>
DELETED_OPEN == <<")", ":", " ", "d", "e", "l", "e", "t", "e", "d", " ", "\"">>

\* the language prop the App passes (its default selection)
LANGUAGE_R == <<"r">>

\* as.character of a non-negative integer
DIGITS == <<"0", "1", "2", "3", "4", "5", "6", "7", "8", "9">>
RECURSIVE DecimalStr(_)
DecimalStr(n) ==
    IF n < 10 THEN <<DIGITS[n + 1]>>
    ELSE DecimalStr(n \div 10) \o <<DIGITS[(n % 10) + 1]>>

\* nchar(x)
nchar(x) == Len(x)

\* paste(parts, collapse = "\n")
RECURSIVE PasteCollapse(_)
PasteCollapse(parts) ==
    IF parts = <<>> THEN <<>>
    ELSE IF Len(parts) = 1 THEN parts[1]
    ELSE parts[1] \o <<"\n">> \o PasteCollapse(Tail(parts))

\* ctx$selections / ctx$recentEdits: NULL (here the empty list) when absent
SelectionsOf(ctx) == IF "selections" \in DOMAIN ctx THEN ctx.selections ELSE <<>>
RecentEditsOf(ctx) == IF "recentEdits" \in DOMAIN ctx THEN ctx.recentEdits ELSE <<>>

\* the position header and the fenced prefix/suffix block
HeaderPartsSwapped(ctx) ==
    << LANGUAGE_LABEL \o ctx.language,
       LINE_LABEL \o DecimalStr(ctx.line) \o COLUMN_LABEL \o DecimalStr(ctx.column),
       <<>>,
       FIM_PREFIX,
       ctx.suffix,
       FIM_SUFFIX,
       ctx.prefix,
       FIM_MIDDLE >>

HeaderParts(ctx) ==
    << LANGUAGE_LABEL \o ctx.language,
       LINE_LABEL \o DecimalStr(ctx.line) \o COLUMN_LABEL \o DecimalStr(ctx.column),
       <<>>,
       FIM_PREFIX,
       ctx.prefix,
       FIM_SUFFIX,
       ctx.suffix,
       FIM_MIDDLE >>

\* the loop over seq_along(ctx$selections), from index i on
RECURSIVE SelectionLinesAll(_, _)
SelectionLinesAll(sels, i) ==
    IF i > Len(sels) THEN <<>>
    ELSE LET sel == sels[i]
         IN  << SELECTION_LABEL \o DecimalStr(i) \o LINE_OPEN
                  \o DecimalStr(sel.fromLine) \o <<":">>
                  \o DecimalStr(sel.fromColumn) \o ARROW
                  \o DecimalStr(sel.toLine) \o <<":">>
                  \o DecimalStr(sel.toColumn) \o RANGE_CLOSE,
                sel.text >>
             \o SelectionLinesAll(sels, i + 1)

RECURSIVE SelectionLines(_, _)
SelectionLines(sels, i) ==
    IF i > Len(sels) THEN <<>>
    ELSE LET sel == sels[i]
         IN  (IF nchar(sel.text) > 0
              THEN << SELECTION_LABEL \o DecimalStr(i) \o LINE_OPEN
                        \o DecimalStr(sel.fromLine) \o <<":">>
                        \o DecimalStr(sel.fromColumn) \o ARROW
                        \o DecimalStr(sel.toLine) \o <<":">>
                        \o DecimalStr(sel.toColumn) \o RANGE_CLOSE,
                      sel.text >>
              ELSE <<>>)
             \o SelectionLines(sels, i + 1)

\* the "Add selection information if present" block
SelectionPartsAnySelection(ctx) ==
    LET sels == SelectionsOf(ctx)
        has_selections == Len(sels) > 0
    IN  IF has_selections
        THEN << <<>>, SEPARATOR, SELECTED_HEADER >> \o SelectionLines(sels, 1)
        ELSE <<>>

SelectionParts(ctx) ==
    LET sels == SelectionsOf(ctx)
        has_text_selected == \E i \in 1..Len(sels) : nchar(sels[i].text) > 0
    IN  IF has_text_selected
        THEN << <<>>, SEPARATOR, SELECTED_HEADER >> \o SelectionLines(sels, 1)
        ELSE <<>>

\* the one-line rendering of the i-th edit shown
EditLineTimestamped(edit, i) ==
    IF nchar(edit.remove) > 0 /\ nchar(edit.insert) > 0
    THEN << EDIT_LABEL \o DecimalStr(i) \o POS_OPEN \o DecimalStr(edit.from)
              \o <<"-">> \o DecimalStr(edit.to) \o QUOTE_OPEN \o edit.remove
              \o QUOTE_ARROW \o edit.insert \o <<"\"">>
              \o DecimalStr(edit.timestamp) >>
    ELSE IF nchar(edit.insert) > 0
    THEN << EDIT_LABEL \o DecimalStr(i) \o POS_OPEN \o DecimalStr(edit.from)
              \o INSERTED_OPEN \o edit.insert \o <<"\"">>
              \o DecimalStr(edit.timestamp) >>
    ELSE IF nchar(edit.remove) > 0
    THEN << EDIT_LABEL \o DecimalStr(i) \o POS_OPEN \o DecimalStr(edit.from)
              \o <<"-">> \o DecimalStr(edit.to) \o DELETED_OPEN \o edit.remove
              \o <<"\"">> \o DecimalStr(edit.timestamp) >>
    ELSE <<>>

EditLine(edit, i) ==
    IF nchar(edit.remove) > 0 /\ nchar(edit.insert) > 0
    THEN << EDIT_LABEL \o DecimalStr(i) \o POS_OPEN \o DecimalStr(edit.from)
              \o <<"-">> \o DecimalStr(edit.to) \o QUOTE_OPEN \o edit.remove
              \o QUOTE_ARROW \o edit.insert \o <<"\"">> >>
    ELSE IF nchar(edit.insert) > 0
    THEN << EDIT_LABEL \o DecimalStr(i) \o POS_OPEN \o DecimalStr(edit.from)
              \o INSERTED_OPEN \o edit.insert \o <<"\"">> >>
    ELSE IF nchar(edit.remove) > 0
    THEN << EDIT_LABEL \o DecimalStr(i) \o POS_OPEN \o DecimalStr(edit.from)
              \o <<"-">> \o DecimalStr(edit.to) \o DELETED_OPEN \o edit.remove
              \o <<"\"">> >>
    ELSE <<>>

\* the loop over seq_len(num_to_show), from index i on
RECURSIVE EditLinesOldestFirst(_, _, _)
EditLinesOldestFirst(edits, i, num_to_show) ==
    IF i > num_to_show THEN <<>>
    ELSE EditLine(edits[Len(edits) - num_to_show + i], i)
           \o EditLinesOldestFirst(edits, i + 1, num_to_show)

RECURSIVE EditLines(_, _, _)
EditLines(edits, i, num_to_show) ==
    IF i > num_to_show THEN <<>>
    ELSE EditLine(edits[Len(edits) - i + 1], i)
           \o EditLines(edits, i + 1, num_to_show)

\* the "Add recent edits information" block
RecentEditsPartsAlways(ctx) ==
    LET edits == RecentEditsOf(ctx)
    IN  << <<>>, SEPARATOR, EDITS_HEADER >>
          \o EditLines(edits, 1, Min(NUM_TO_SHOW, Len(edits)))

RecentEditsParts(ctx) ==
    LET edits == RecentEditsOf(ctx)
    IN  IF Len(edits) > 0
        THEN << <<>>, SEPARATOR, EDITS_HEADER >>
               \o EditLines(edits, 1, Min(NUM_TO_SHOW, Len(edits)))
        ELSE <<>>

\* the render function of output$cursor_info
AssembleStateful(ctx) ==
    IF ctx = NULL THEN WAITING
    ELSE PasteCollapse(HeaderParts(ctx) \o SelectionParts(ctx)
                         \o RecentEditsParts(ctx)
                         \o << DecimalStr(Len(renderLog)) >>)

AssembleEditsFirst(ctx) ==
    IF ctx = NULL THEN WAITING
    ELSE PasteCollapse(HeaderParts(ctx) \o RecentEditsParts(ctx)
                         \o SelectionParts(ctx))

AssembleNoSentinel(ctx) ==
    IF ctx = NULL THEN <<>>
    ELSE PasteCollapse(HeaderParts(ctx) \o SelectionParts(ctx)
                         \o RecentEditsParts(ctx))

Assemble(ctx) ==
    IF ctx = NULL THEN WAITING
    ELSE PasteCollapse(HeaderParts(ctx) \o SelectionParts(ctx)
                         \o RecentEditsParts(ctx))

----------------------------------------------------------------------------
(* The notifications the editing surface sends *)

\* a single change to the document
Change(from, to, text) == [fromA |-> from, toA |-> to, inserted |-> text]

\* the i-th sub-range of a multi-range change: an insertion, a replacement
\* and a deletion in turn, each one character apart from the next
MultiRange(i) ==
    LET p == 2 * (i - 1)
    IN  CASE i % 3 = 1 -> Change(p, p, <<"x">>)
          [] i % 3 = 2 -> Change(p, p + 1, <<"y">>)
          [] OTHER     -> Change(p, p + 1, <<>>)

MultiChange(k) == [i \in 1..k |-> MultiRange(i)]

\* the change sets offered on document d with the cursor at h
ChangeSets(d, h) ==
    { << Change(h, h, <<"Q">>) >> }
      \cup (IF Len(d) >= 5 THEN { << Change(2, 5, <<"Q">>) >> } ELSE {})
      \cup { MultiChange(k) : k \in {n \in {3, MaxRanges} : Len(d) >= 2 * n - 1} }

\* the cursor after a change set: the end of the last changed range
HeadAfter(d, changes) ==
    Len(ApplyChanges(sliceString(d, 0, changes[Len(changes)].toA), changes))

\* the cursor positions a selection change may move to
CursorStops(d) == {0, Len(d)} \cup (IF Len(d) >= 3 THEN {3} ELSE {})

\* no timer has been set yet
NotScheduled == [id |-> 0, buffer |-> <<>>]

\* the ViewUpdate of a transaction that changes the document (timestamp,
\* records and scheduled are filled in by handleUpdate: the time it read, the
\* records its iteration pushed, and the timer set last with the buffer as it
\* was when the handler that set it returned)
DocUpdate(d, changes) ==
    [docChanged |-> TRUE, selectionSet |-> TRUE, startDoc |-> d,
     changes |-> changes, doc |-> ApplyChanges(d, changes),
     head |-> HeadAfter(d, changes), timestamp |-> 0, records |-> <<>>,
     scheduled |-> NotScheduled]

\* the ViewUpdate of a transaction that only moves the cursor
SelectionUpdate(d, h) ==
    [docChanged |-> FALSE, selectionSet |-> TRUE, startDoc |-> d,
     changes |-> <<>>, doc |-> d, head |-> h, timestamp |-> 0,
     records |-> <<>>, scheduled |-> NotScheduled]

\* the cursor after the whole document is replaced: a position inside the
\* replaced text goes to its start, the end of a non-empty text to the new end
HeadMapped(d, h, value) == IF Len(d) > 0 /\ h = Len(d) THEN Len(value) ELSE 0

\* the ViewUpdate of the transaction that follows a new value prop: the whole
\* document is replaced and no selection is set
ValueUpdate(d, h, value) ==
    [docChanged |-> TRUE, selectionSet |-> FALSE, startDoc |-> d,
     changes |-> << Change(0, Len(d), value) >>, doc |-> value,
     head |-> HeadMapped(d, h, value), timestamp |-> 0, records |-> <<>>,
     scheduled |-> NotScheduled]

\* a ViewUpdate with neither (focus, viewport, geometry)
OtherUpdate(d, h) ==
    [docChanged |-> FALSE, selectionSet |-> FALSE, startDoc |-> d,
     changes |-> <<>>, doc |-> d, head |-> h, timestamp |-> 0,
     records |-> <<>>, scheduled |-> NotScheduled]

\* the time that may pass before Date.now() is read again
TimeSteps == {1, MAX_AGE_MS}

----------------------------------------------------------------------------
(* Initial state: the editor is mounted on its initial document, the session *)
(* is up and output$cursor_info has been rendered once, with no input yet.   *)

DOC_LINES == <<"a", "b", "\n", "c", "d">>
DOC_XYZ == <<"a", "b", "x", "y", "z", "\n">>
PROP_VALUE == <<"z", "\n">>
LongDoc == [i \in 1..(2 * MaxRanges) |-> IF i % 4 = 0 THEN "\n" ELSE "a"]

InitDocs == {<<>>, DOC_LINES, DOC_XYZ}

NoUpdate == [docChanged |-> FALSE, selectionSet |-> FALSE, startDoc |-> <<>>,
             changes |-> <<>>, doc |-> <<>>, head |-> 0, timestamp |-> 0,
             records |-> <<>>, scheduled |-> NotScheduled]

InitCommon ==
    /\ head = 0
    /\ now = 0
    /\ recentEditsRef = <<>>
    /\ debounceTimerRef = 0
    /\ timers = {}
    /\ nextTimerId = 1
    /\ cursorContext = NULL
    /\ sendPending = FALSE
    /\ lastSent = NULL
    /\ input_cursor_context = NULL
    /\ cursor_info = Assemble(NULL)
    /\ delivered = <<>>
    /\ cancelled = {}
    /\ bursts = 0
    /\ notified = 0
    /\ lastUpdate = NoUpdate
    /\ renderLog = << [input |-> NULL, output |-> Assemble(NULL)] >>

Init ==
    /\ doc \in InitDocs
    /\ hasConsumer \in BOOLEAN
    /\ InitCommon

----------------------------------------------------------------------------
(* CodeEditor.handleUpdate *)

\* the "Debounce the callback" block: the pending timers after it
RescheduleNoClear(pending, ref, id, context) ==
    pending \cup {[id |-> id, context |-> context]}

Reschedule(pending, ref, id, context) ==
    (IF ref # 0 THEN ClearTimeout(pending, ref) ELSE pending)
        \cup {[id |-> id, context |-> context]}

\* if (update.selectionSet || update.docChanged)
QualifiesAlways(update) == TRUE

QualifiesSelectionOnly(update) == update.selectionSet

Qualifies(update) == update.selectionSet \/ update.docChanged

\* recentEditsRef.current.push(edit) changes the array in place: whoever
\* holds that array sees the records; the filter that follows makes
\* recentEditsRef.current a new array
PushVisible(contexts, records) ==
    [i \in 1..Len(contexts) |->
        IF contexts[i].live
        THEN [contexts[i] EXCEPT !.context.recentEdits = @ \o records,
                                 !.live = FALSE]
        ELSE contexts[i]]

\* handleUpdate(update), with `elapsed` the time since Date.now() was read last
HandleUpdateUnguarded(update, elapsed) ==
    /\ notified < MaxNotifications
    /\ notified' = notified + 1
    /\ doc' = update.doc
    /\ head' = update.head
    /\ now' = IF update.docChanged THEN now + elapsed ELSE now
    /\ recentEditsRef' = IF update.docChanged
                         THEN TrackEdits(recentEditsRef, update, now')
                         ELSE recentEditsRef
    /\ lastUpdate' = [update EXCEPT !.timestamp = now',
                                    !.records = IF update.docChanged
                                                THEN Pushed(recentEditsRef, update, now')
                                                ELSE <<>>,
                                    !.scheduled = IF Qualifies(update)
                                                  THEN [id |-> nextTimerId,
                                                        buffer |-> recentEditsRef']
                                                  ELSE lastUpdate.scheduled]
    /\ delivered' = IF update.docChanged
                    THEN PushVisible(delivered, lastUpdate'.records)
                    ELSE delivered
    /\ IF Qualifies(update)
       THEN /\ timers' = Reschedule(timers, debounceTimerRef, nextTimerId,
                                    Snapshot(update, LANGUAGE_R))
            /\ debounceTimerRef' = nextTimerId
            /\ nextTimerId' = nextTimerId + 1
            /\ cancelled' = cancelled
                  \cup {t.id : t \in {s \in timers : s.id = debounceTimerRef}}
            /\ bursts' = IF timers = {} THEN bursts + 1 ELSE bursts
       ELSE UNCHANGED <<timers, debounceTimerRef, nextTimerId, cancelled, bursts>>
    /\ UNCHANGED <<hasConsumer, cursorContext, sendPending, lastSent,
                   input_cursor_context, cursor_info, renderLog>>

HandleUpdate(update, elapsed) ==
    /\ notified < MaxNotifications
    /\ notified' = notified + 1
    /\ doc' = update.doc
    /\ head' = update.head
    /\ IF ~hasConsumer
       THEN /\ lastUpdate' = [update EXCEPT !.timestamp = now]
            /\ UNCHANGED <<now, recentEditsRef, timers, debounceTimerRef,
                           nextTimerId, cancelled, bursts, delivered>>
       ELSE /\ now' = IF update.docChanged THEN now + elapsed ELSE now
            /\ recentEditsRef' = IF update.docChanged
                                 THEN TrackEdits(recentEditsRef, update, now')
                                 ELSE recentEditsRef
            /\ lastUpdate' = [update EXCEPT !.timestamp = now',
                                            !.records = IF update.docChanged
                                                        THEN Pushed(recentEditsRef, update, now')
                                                        ELSE <<>>,
                                            !.scheduled = IF Qualifies(update)
                                                          THEN [id |-> nextTimerId,
                                                                buffer |-> recentEditsRef']
                                                          ELSE lastUpdate.scheduled]
            /\ delivered' = IF update.docChanged
                            THEN PushVisible(delivered, lastUpdate'.records)
                            ELSE delivered
            /\ IF Qualifies(update)
               THEN /\ timers' = Reschedule(timers, debounceTimerRef, nextTimerId,
                                            Snapshot(update, LANGUAGE_R))
                    /\ debounceTimerRef' = nextTimerId
                    /\ nextTimerId' = nextTimerId + 1
                    /\ cancelled' = cancelled
                          \cup {t.id : t \in {s \in timers : s.id = debounceTimerRef}}
                    /\ bursts' = IF timers = {} THEN bursts + 1 ELSE bursts
               ELSE UNCHANGED <<timers, debounceTimerRef, nextTimerId, cancelled,
                                bursts>>
    /\ UNCHANGED <<hasConsumer, cursorContext, sendPending, lastSent,
                   input_cursor_context, cursor_info, renderLog>>

\* a transaction that changes the document
DocChanged ==
    \E changes \in ChangeSets(doc, head), elapsed \in TimeSteps :
        HandleUpdate(DocUpdate(doc, changes), elapsed)

\* a transaction that only moves the cursor
SelectionSet ==
    \E h \in CursorStops(doc) \ {head} :
        HandleUpdate(SelectionUpdate(doc, h), 0)

\* the value prop differs from the document: it replaces the document
ValueChanged ==
    /\ doc # PROP_VALUE
    /\ \E elapsed \in TimeSteps :
          HandleUpdate(ValueUpdate(doc, head, PROP_VALUE), elapsed)

\* an update that changes neither
OtherViewUpdate ==
    HandleUpdate(OtherUpdate(doc, head), 0)

----------------------------------------------------------------------------
(* The timer's callback, and App.handleCursorChange which it calls *)

\* [...recentEditsRef.current]: a new array with the buffer's entries
LiveReference(buf) == [items |-> buf, live |-> TRUE]

SpreadCopy(buf) == [items |-> buf, live |-> FALSE]

TimerFire ==
    \E t \in timers :
        LET edits == SpreadCopy(recentEditsRef)
            context == t.context @@ [recentEdits |-> edits.items]
        IN  /\ timers' = timers \ {t}
            /\ delivered' = Append(delivered, [id |-> t.id, context |-> context,
                                               live |-> edits.live])
            /\ cursorContext' = context
            /\ sendPending' = TRUE
            /\ UNCHANGED <<doc, head, hasConsumer, now, recentEditsRef,
                           debounceTimerRef, nextTimerId, lastSent,
                           input_cursor_context, cursor_info, cancelled, bursts,
                           notified, lastUpdate, renderLog>>

----------------------------------------------------------------------------
(* The channel and the backend *)

\* the server receives a value for input$cursor_context and, in the same
\* flush, renders output$cursor_info from it
ReceiveMerging(value) ==
    /\ input_cursor_context' = IF value = NULL \/ input_cursor_context = NULL
                               THEN value
                               ELSE value @@ input_cursor_context
    /\ cursor_info' = Assemble(input_cursor_context')
    /\ renderLog' = Append(renderLog, [input |-> value, output |-> cursor_info'])

Receive(value) ==
    /\ input_cursor_context' = value
    /\ cursor_info' = Assemble(value)
    /\ renderLog' = Append(renderLog, [input |-> value, output |-> cursor_info'])

\* useShinyInput's debounce elapses: the value goes to the server unless it
\* is the value sent last
ShinySend ==
    /\ sendPending
    /\ sendPending' = FALSE
    /\ IF cursorContext # lastSent
       THEN /\ lastSent' = cursorContext
            /\ Receive(cursorContext)
       ELSE UNCHANGED <<lastSent, input_cursor_context, cursor_info, renderLog>>
    /\ UNCHANGED <<doc, head, hasConsumer, now, recentEditsRef, debounceTimerRef,
                   timers, nextTimerId, cursorContext, delivered, cancelled,
                   bursts, notified, lastUpdate>>

Next ==
    \/ DocChanged
    \/ SelectionSet
    \/ ValueChanged
    \/ OtherViewUpdate
    \/ TimerFire
    \/ ShinySend

Spec == Init /\ [][Next]_vars

----------------------------------------------------------------------------
(* The emitter alone, with the browser's guarantee that a timeout that is   *)
(* pending and not cleared runs its callback.                               *)

NextEmitter ==
    \/ notified < MaxLongNotifications /\ DocChanged
    \/ notified < MaxLongNotifications /\ SelectionSet
    \/ notified < MaxLongNotifications /\ ValueChanged
    \/ notified < MaxLongNotifications /\ OtherViewUpdate
    \/ TimerFire

SpecEmitter == Init /\ [][NextEmitter]_vars /\ WF_vars(TimerFire)

----------------------------------------------------------------------------
(* The editor on a document long enough for a change set of MaxRanges       *)
(* sub-ranges.                                                              *)

InitBulk ==
    /\ doc = LongDoc
    /\ hasConsumer = TRUE
    /\ InitCommon

NextBulk ==
    \/ notified < MaxLongNotifications /\ DocChanged
    \/ notified < MaxLongNotifications /\ SelectionSet
    \/ TimerFire
    \/ ShinySend

SpecBulk == InitBulk /\ [][NextBulk]_vars

----------------------------------------------------------------------------
(* The editor on documents longer than the context window: the cursor moves *)
(* to the places where the window's clamping changes.                       *)

WindowDoc(n) == [i \in 1..n |-> IF i % 7 = 0 THEN "\n"
                                ELSE IF i % 2 = 0 THEN "a" ELSE "b"]

WindowLengths == {0, 1, SUFFIX_CHARS, PREFIX_CHARS,
                  PREFIX_CHARS + SUFFIX_CHARS + WindowSlack}

WindowStops(d) ==
    {c \in {0, 1, SUFFIX_CHARS, PREFIX_CHARS - 1, PREFIX_CHARS, PREFIX_CHARS + 1,
            Len(d) - SUFFIX_CHARS - 1, Len(d) - SUFFIX_CHARS,
            Len(d) - SUFFIX_CHARS + 1, Len(d)} : 0 <= c /\ c <= Len(d)}

InitWindow ==
    /\ doc \in {WindowDoc(n) : n \in WindowLengths}
    /\ hasConsumer = TRUE
    /\ InitCommon

WindowSelectionSet ==
    \E h \in WindowStops(doc) \ {head} :
        HandleUpdate(SelectionUpdate(doc, h), 0)

WindowDocChanged ==
    \E elapsed \in TimeSteps :
        HandleUpdate(DocUpdate(doc, << Change(head, head, <<"Q">>) >>), elapsed)

NextWindow ==
    \/ notified < MaxLongNotifications /\ WindowSelectionSet
    \/ notified < MaxLongNotifications /\ WindowDocChanged
    \/ TimerFire

SpecWindow == InitWindow /\ [][NextWindow]_vars

----------------------------------------------------------------------------
(* The backend alone: it receives any value the wire shape allows.          *)

EDIT_INSERT == [timestamp |-> 5, from |-> 3, to |-> 3, insert |-> <<"Q">>,
                remove |-> <<>>]
EDIT_DELETE == [timestamp |-> 4, from |-> 0, to |-> 2, insert |-> <<>>,
                remove |-> <<"a", "b">>]
EDIT_REPLACE == [timestamp |-> 9, from |-> 2, to |-> 5, insert |-> <<"Q">>,
                 remove |-> <<"x", "y", "z">>]

\* the i-th edit of the lists received: the three kinds in turn, at
\* distinct positions, with timestamps that do not follow the list's order
SampleEdit(i) ==
    CASE i % 3 = 1 -> [EDIT_INSERT EXCEPT !.from = i + 10, !.to = i + 10]
      [] i % 3 = 2 -> [EDIT_DELETE EXCEPT !.from = i + 10, !.to = i + 12]
      [] OTHER     -> [EDIT_REPLACE EXCEPT !.from = i + 10, !.to = i + 13,
                                           !.timestamp = 9 - i]

EditLists == {[i \in 1..n |-> SampleEdit(i)] : n \in 0..MaxListed}

SEL_CURSOR == [from |-> 3, to |-> 3, fromLine |-> 2, fromColumn |-> 0,
               toLine |-> 2, toColumn |-> 0, text |-> <<>>]
SEL_TEXT == [from |-> 1, to |-> 4, fromLine |-> 1, fromColumn |-> 1,
             toLine |-> 2, toColumn |-> 1, text |-> <<"b", "\n", "c">>]

SelectionLists == {<<>>, <<SEL_CURSOR>>, <<SEL_TEXT>>, <<SEL_CURSOR, SEL_TEXT>>}

POSITION == [line |-> 2, column |-> 0, prefix |-> <<"a", "b", "\n">>,
             suffix |-> <<"c", "d">>, language |-> LANGUAGE_R]
POSITION_EMPTY == [line |-> 1, column |-> 0, prefix |-> <<>>, suffix |-> <<>>,
                   language |-> <<"p", "y", "t", "h", "o", "n">>]

\* the values of input$cursor_context: null, and contexts with and without
\* the optional fields
ReceivedValues ==
    {NULL, POSITION, POSITION_EMPTY}
      \cup {POSITION @@ [recentEdits |-> edits] : edits \in EditLists}
      \cup {POSITION @@ [selections |-> sels, recentEdits |-> edits] :
               sels \in SelectionLists, edits \in {<<>>, <<EDIT_REPLACE>>}}

InitBackend ==
    /\ doc = <<>>
    /\ hasConsumer = FALSE
    /\ InitCommon

BackendReceive ==
    /\ Len(renderLog) <= MaxReceived
    /\ \E value \in ReceivedValues : Receive(value)
    /\ UNCHANGED <<doc, head, hasConsumer, now, recentEditsRef, debounceTimerRef,
                   timers, nextTimerId, cursorContext, sendPending, lastSent,
                   delivered, cancelled, bursts, notified, lastUpdate>>

NextBackend == BackendReceive

SpecBackend == InitBackend /\ [][NextBackend]_vars

----------------------------------------------------------------------------
(* The assembler alone: it renders every shape of context, among them text  *)
(* that holds line breaks or the delimiter tokens themselves.               *)

EDIT_NEWLINE == [timestamp |-> 7, from |-> 2, to |-> 2, insert |-> <<"\n">>,
                 remove |-> <<>>]

SEL_WORD == [from |-> 3, to |-> 5, fromLine |-> 2, fromColumn |-> 0,
             toLine |-> 2, toColumn |-> 2, text |-> <<"c", "d">>]

POSITION_TOKENS == [line |-> 1, column |-> 14, prefix |-> FIM_SUFFIX,
                    suffix |-> FIM_MIDDLE, language |-> LANGUAGE_R]

\* the same edits, recorded MAX_AGE_MS later
Retimed(edits) ==
    [i \in 1..Len(edits) |-> [edits[i] EXCEPT !.timestamp = @ + MAX_AGE_MS]]

RenderedValues ==
    ReceivedValues
      \cup {POSITION @@ [recentEdits |-> Retimed(edits)] :
               edits \in {<<EDIT_REPLACE>>, <<EDIT_DELETE, EDIT_NEWLINE, EDIT_INSERT>>}}
      \cup {POSITION_TOKENS,
            POSITION_EMPTY @@ [selections |-> <<SEL_WORD>>],
            POSITION @@ [recentEdits |-> <<EDIT_DELETE, EDIT_NEWLINE, EDIT_INSERT>>]}
      \cup {POSITION @@ [selections |-> <<SEL_TEXT, SEL_CURSOR, SEL_WORD>>,
                         recentEdits |-> edits] :
               edits \in {<<>>, <<EDIT_INSERT, EDIT_REPLACE>>}}

RenderReceive ==
    /\ Len(renderLog) <= MaxRendered
    /\ \E value \in RenderedValues : Receive(value)
    /\ UNCHANGED <<doc, head, hasConsumer, now, recentEditsRef, debounceTimerRef,
                   timers, nextTimerId, cursorContext, sendPending, lastSent,
                   delivered, cancelled, bursts, notified, lastUpdate>>

NextRender == RenderReceive

SpecRender == InitBackend /\ [][NextRender]_vars

----------------------------------------------------------------------------
(* The simpler backend: its output$cursor_info shows at most 3 recent edits *)

NUM_TO_SHOW_SIMPLE == 3
TEXT_SHOWN == 100
EDIT_TEXT_SHOWN == 50

\* the string constants of the simpler render function
V_CURSOR_POSITION == <<"C", "u", "r", "s", "o", "r", " ", "P", "o", "s", "i", "t", "i", "o", "n", ":">>
V_LINE == <<" ", " ", "L", "i", "n", "e", ":", " ">>
V_COLUMN == <<" ", " ", "C", "o", "l", "u", "m", "n", ":", " ">>
V_LANGUAGE == <<" ", " ", "L", "a", "n", "g", "u", "a", "g", "e", ":", " ">>
V_SELECTIONS_HEADER == <<"C", "u", "r", "r", "e", "n", "t", " ", "S", "e", "l", "e", "c", "t", "i", "o", "n", "(", "s", ")", ":">>
V_TOTAL_SELECTIONS == <<" ", " ", "T", "o", "t", "a", "l", " ", "s", "e", "l", "e", "c", "t", "i", "o", "n", "s", ":", " ">>
V_SELECTION == <<" ", " ", "S", "e", "l", "e", "c", "t", "i", "o", "n", " ">>
V_RANGE == <<" ", " ", " ", " ", "R", "a", "n", "g", "e", ":", " ", "L", "i", "n", "e", " ">>
V_ARROW_LINE == <<" ", "→", " ", "L", "i", "n", "e", " ">>
V_POSITIONS == <<" ", " ", " ", " ", "P", "o", "s", "i", "t", "i", "o", "n", "s", ":", " ">>
V_TEXT == <<" ", " ", " ", " ", "T", "e", "x", "t", ":", " ", "\"">>
V_CURSOR_ONLY == <<":", " ", "(", "c", "u", "r", "s", "o", "r", " ", "o", "n", "l", "y", " ", "a", "t", " ", "L", "i", "n", "e", " ">>
V_CONTEXT == <<"C", "o", "n", "t", "e", "x", "t", ":">>
V_RULE == <<"=", "=", "=", "=", "=", "=", "=", "=", "=", "=", "=", "=", "=", "=">>
V_CURSOR_MARK == <<"-", "-", " ", "[", "C", "U", "R", "S", "O", "R", "]", " ", "-", "-">>
V_EDITS_HEADER == <<"R", "e", "c", "e", "n", "t", " ", "E", "d", "i", "t", "s", ":">>
V_TOTAL_EDITS == <<" ", " ", "T", "o", "t", "a", "l", " ", "e", "d", "i", "t", "s", " ", "t", "r", "a", "c", "k", "e", "d", ":", " ">>
V_EDIT == <<" ", " ", "E", "d", "i", "t", " ">>
V_POS == <<":", " ", "p", "o", "s", " ">>
V_REMOVED == <<" ", " ", " ", " ", "R", "e", "m", "o", "v", "e", "d", ":", " ", "\"">>
V_INSERTED == <<" ", " ", " ", " ", "I", "n", "s", "e", "r", "t", "e", "d", ":", " ", "\"">>

\* substr(x, start, stop)
substr(x, start, stop) == SubSeq(x, start, Min(stop, Len(x)))

\* the "Format cursor information" block
SimpleHeaderParts(ctx) ==
    << V_CURSOR_POSITION,
       V_LINE \o DecimalStr(ctx.line),
       V_COLUMN \o DecimalStr(ctx.column),
       V_LANGUAGE \o ctx.language >>

\* the loop over seq_along(ctx$selections), from index i on
RECURSIVE SimpleSelectionLines(_, _)
SimpleSelectionLines(sels, i) ==
    IF i > Len(sels) THEN <<>>
    ELSE LET sel == sels[i]
             has_text == nchar(sel.text) > 0
         IN  (IF has_text
              THEN << V_SELECTION \o DecimalStr(i) \o <<":">>,
                      V_RANGE \o DecimalStr(sel.fromLine) \o <<":">>
                        \o DecimalStr(sel.fromColumn) \o V_ARROW_LINE
                        \o DecimalStr(sel.toLine) \o <<":">>
                        \o DecimalStr(sel.toColumn),
                      V_POSITIONS \o DecimalStr(sel.from) \o <<"-">>
                        \o DecimalStr(sel.to),
                      V_TEXT \o substr(sel.text, 1, TEXT_SHOWN) \o <<"\"">> >>
              ELSE << V_SELECTION \o DecimalStr(i) \o V_CURSOR_ONLY
                        \o DecimalStr(sel.fromLine) \o <<":">>
                        \o DecimalStr(sel.fromColumn) \o <<")">> >>)
             \o SimpleSelectionLines(sels, i + 1)

\* the "Add selection information" block
SimpleSelectionParts(ctx) ==
    LET sels == SelectionsOf(ctx)
    IN  IF Len(sels) > 0
        THEN << <<>>, V_SELECTIONS_HEADER,
                V_TOTAL_SELECTIONS \o DecimalStr(Len(sels)) >>
               \o SimpleSelectionLines(sels, 1)
        ELSE <<>>

\* the "Context:" block
SimpleContextParts(ctx) ==
    << <<>>, V_CONTEXT, V_RULE, ctx.prefix, V_CURSOR_MARK, ctx.suffix, V_RULE >>

\* the lines of the i-th edit shown
SimpleEditLines(edit, i) ==
    << V_EDIT \o DecimalStr(i) \o V_POS \o DecimalStr(edit.from) \o <<"-">>
         \o DecimalStr(edit.to) >>
      \o (IF nchar(edit.remove) > 0
          THEN << V_REMOVED \o substr(edit.remove, 1, EDIT_TEXT_SHOWN) \o <<"\"">> >>
          ELSE <<>>)
      \o (IF nchar(edit.insert) > 0
          THEN << V_INSERTED \o substr(edit.insert, 1, EDIT_TEXT_SHOWN) \o <<"\"">> >>
          ELSE <<>>)

\* the loop over seq_len(num_to_show), from index i on
RECURSIVE SimpleEditsShownNewestFirst(_, _, _)
SimpleEditsShownNewestFirst(edits, i, num_to_show) ==
    IF i > num_to_show THEN <<>>
    ELSE SimpleEditLines(edits[Len(edits) - i + 1], i)
           \o SimpleEditsShownNewestFirst(edits, i + 1, num_to_show)

RECURSIVE SimpleEditsShown(_, _, _)
SimpleEditsShown(edits, i, num_to_show) ==
    IF i > num_to_show THEN <<>>
    ELSE SimpleEditLines(edits[Len(edits) - num_to_show + i], i)
           \o SimpleEditsShown(edits, i + 1, num_to_show)

\* the "Add recent edits information" block
SimpleRecentEditsParts(ctx) ==
    LET edits == RecentEditsOf(ctx)
    IN  IF Len(edits) > 0
        THEN << <<>>, V_EDITS_HEADER,
                V_TOTAL_EDITS \o DecimalStr(Len(edits)) >>
               \o SimpleEditsShown(edits, 1, Min(NUM_TO_SHOW_SIMPLE, Len(edits)))
        ELSE <<>>

\* the simpler render function of output$cursor_info
AssembleSimple(ctx) ==
    IF ctx = NULL THEN WAITING
    ELSE PasteCollapse(SimpleHeaderParts(ctx) \o SimpleSelectionParts(ctx)
                         \o SimpleContextParts(ctx)
                         \o SimpleRecentEditsParts(ctx))

\* the simpler backend receives a value and renders it
SimpleReceive ==
    /\ Len(renderLog) <= MaxRendered
    /\ \E value \in RenderedValues :
          /\ input_cursor_context' = value
          /\ cursor_info' = AssembleSimple(value)
          /\ renderLog' = Append(renderLog, [input |-> value,
                                             output |-> cursor_info'])
    /\ UNCHANGED <<doc, head, hasConsumer, now, recentEditsRef, debounceTimerRef,
                   timers, nextTimerId, cursorContext, sendPending, lastSent,
                   delivered, cancelled, bursts, notified, lastUpdate>>

NextSimple == SimpleReceive

SpecSimple == InitBackend /\ [][NextSimple]_vars

----------------------------------------------------------------------------
(* Properties *)

Last(s) == s[Len(s)]

\* C1: once handleUpdate has returned, the edit history buffer holds at most
\* 20 entries, also after a notification that carries more than 20 sub-ranges.
C1_BufferAtMost20 == Len(recentEditsRef) <= MAX_EDITS

\* a notification with more than 20 sub-ranges has been handled and the
\* buffer is full
C1_Witness ==
    /\ lastUpdate.docChanged
    /\ Len(lastUpdate.changes) > MAX_EDITS
    /\ Len(recentEditsRef) = MAX_EDITS

\* C2: no entry of the buffer is older than 30000 ms relative to the edit
\* recorded last (whose timestamp is the clock as read last).
C2_NoEntryOlderThan30s ==
    \A i \in 1..Len(recentEditsRef) :
        /\ now - recentEditsRef[i].timestamp <= MAX_AGE_MS
        /\ Last(recentEditsRef).timestamp - recentEditsRef[i].timestamp <= MAX_AGE_MS

\* at least two document changes were recorded more than 30000 ms apart, and
\* only entries of the latest are left
C2_Witness ==
    /\ hasConsumer
    /\ now > MAX_AGE_MS
    /\ recentEditsRef # <<>>
    /\ \A i \in 1..Len(recentEditsRef) : recentEditsRef[i].timestamp = now

\* C3: every burst of notifications (each arriving while the timer of the one
\* before is pending) results in exactly one delivery, and the context
\* delivered has the line, column, prefix and suffix of the editor state at
\* the last notification of the burst.
C3_OneDeliveryPerBurst ==
    hasConsumer =>
        /\ Len(delivered) + Cardinality(timers) = bursts
        /\ (timers = {} /\ delivered # <<>>) =>
              LET context == Last(delivered).context
                  line == lineAt(doc, head)
              IN  /\ context.line = line.number
                  /\ context.column = head - line.from
                  /\ context.prefix = sliceString(doc, Max(0, head - PREFIX_CHARS), head)
                  /\ context.suffix = sliceString(doc, head,
                                                  Min(Len(doc), head + SUFFIX_CHARS))

\* a burst of at least two notifications, the last a document change, has
\* been delivered
C3_Witness ==
    /\ timers = {}
    /\ delivered # <<>>
    /\ (Last(delivered).id - 1) \in cancelled
    /\ lastUpdate.docChanged

\* C4: an emission whose timer was replaced while pending is never
\* delivered, and it is not pending either: only the timer scheduled last
\* can fire.
C4_CancelledNeverDelivered ==
    /\ \A i \in 1..Len(delivered) : delivered[i].id \notin cancelled
    /\ \A t \in timers : t.id \notin cancelled /\ t.id = nextTimerId - 1

\* a timer was replaced while pending and its successor has fired
C4_Witness ==
    \E c \in cancelled :
        /\ delivered # <<>>
        /\ Last(delivered).id = c + 1

\* C5: at most one emission is scheduled and undelivered; the pending timer,
\* if any, is the one debounceTimerRef names.
C5_AtMostOnePending ==
    /\ Cardinality(timers) <= 1
    /\ \A t \in timers : t.id = debounceTimerRef

\* one timer is pending after it replaced another
C5_Witness ==
    /\ Cardinality(timers) = 1
    /\ debounceTimerRef \in {c + 1 : c \in cancelled}

\* C6: without an onCursorChange consumer no timer is scheduled and nothing
\* is delivered, whatever notifications arrive.
C6_InertWithoutConsumer ==
    ~hasConsumer =>
        /\ timers = {}
        /\ debounceTimerRef = 0
        /\ delivered = <<>>
        /\ cursorContext = NULL

\* notifications, the last one a document change, were handled with no
\* consumer
C6_Witness ==
    /\ ~hasConsumer
    /\ notified >= 2
    /\ lastUpdate.docChanged
    /\ lastUpdate.selectionSet

\* C7: the context built on a notification has prefix = text[max(0, c-1000), c)
\* and suffix = text[c, min(length, c+200)): the lengths are min(1000, c) and
\* min(200, length - c) and the characters are those of the document.
C7_WindowSlices ==
    \A t \in timers :
        LET prefix == t.context.prefix
            suffix == t.context.suffix
        IN  /\ Len(prefix) = Min(PREFIX_CHARS, head)
            /\ Len(suffix) = Min(SUFFIX_CHARS, Len(doc) - head)
            /\ \A i \in 1..Len(prefix) : prefix[i] = doc[head - Len(prefix) + i]
            /\ \A i \in 1..Len(suffix) : suffix[i] = doc[head + i]

\* a context was built with both the prefix and the suffix cut to their caps
C7_Witness ==
    /\ head > PREFIX_CHARS
    /\ Len(doc) - head > SUFFIX_CHARS
    /\ \E t \in timers : Len(t.context.prefix) = PREFIX_CHARS
                         /\ Len(t.context.suffix) = SUFFIX_CHARS

\* C8: the edits recorded by a notification have from/to in the pre-change
\* document, remove = the pre-change document's [from, to), insert = the text
\* written, and the notification's timestamp.
C8_RemoveFromPreChangeDoc ==
    (hasConsumer /\ lastUpdate.docChanged) =>
        LET k == Len(lastUpdate.changes)
            n == Len(recentEditsRef)
        IN  /\ n >= Min(k, MAX_EDITS)
            /\ \A j \in 1..Min(k, MAX_EDITS) :
                  LET change == lastUpdate.changes[k - j + 1]
                      edit == recentEditsRef[n - j + 1]
                  IN  /\ edit.from = change.fromA
                      /\ edit.to = change.toA
                      /\ edit.from <= edit.to
                      /\ edit.to <= Len(lastUpdate.startDoc)
                      /\ edit.insert = change.inserted
                      /\ edit.timestamp = lastUpdate.timestamp
                      /\ edit.remove = [i \in 1..(edit.to - edit.from) |->
                                          lastUpdate.startDoc[edit.from + i]]

\* [2,5) holding "xyz" was replaced by "Q"
C8_Witness ==
    /\ hasConsumer
    /\ lastUpdate.docChanged
    /\ Len(lastUpdate.startDoc) >= 5
    /\ sliceString(lastUpdate.startDoc, 2, 5) = <<"x", "y", "z">>
    /\ recentEditsRef # <<>>
    /\ Last(recentEditsRef) = [timestamp |-> lastUpdate.timestamp, from |-> 2,
                               to |-> 5, remove |-> <<"x", "y", "z">>,
                               insert |-> <<"Q">>]

\* C9: whenever the backend renders with input$cursor_context absent, the
\* output is the waiting sentinel and nothing else.
C9_NullGivesSentinel ==
    /\ input_cursor_context = NULL => cursor_info = WAITING
    /\ \A i \in 1..Len(renderLog) :
          renderLog[i].input = NULL => renderLog[i].output = WAITING

\* the backend received null after it had received a context
C9_Witness ==
    /\ Len(renderLog) >= 3
    /\ Last(renderLog).input = NULL
    /\ renderLog[Len(renderLog) - 1].input # NULL
    /\ cursor_info = WAITING

----------------------------------------------------------------------------
(* Reading the assembled text *)

StartsWith(s, p) == Len(s) >= Len(p) /\ SubSeq(s, 1, Len(p)) = p

\* the 0-based offsets at which pat occurs in text
Occurrences(text, pat) ==
    {i \in 0..(Len(text) - Len(pat)) : SubSeq(text, i + 1, i + Len(pat)) = pat}

\* the lines of text: the pieces between its line breaks
RECURSIVE SplitLines(_)
SplitLines(text) ==
    LET breaks == {i \in 1..Len(text) : text[i] = "\n"}
    IN  IF breaks = {} THEN <<text>>
        ELSE LET b == CHOOSE i \in breaks : \A j \in breaks : i <= j
             IN  <<SubSeq(text, 1, b - 1)>>
                   \o SplitLines(SubSeq(text, b + 1, Len(text)))

\* the numbers of the lines that are `line`, and of those that start with p
LinesEqual(lines, line) == {i \in 1..Len(lines) : lines[i] = line}
LinesStarting(lines, p) == {i \in 1..Len(lines) : StartsWith(lines[i], p)}

\* the lines of the output rendered last
OutputLines == SplitLines(cursor_info)

\* C11: for a context whose recentEdits is empty or absent the output has no
\* recent-edits section: no "RECENT EDITS:" line, no edit line and no
\* separator beyond the selected-text section's; for a context with recent
\* edits the header is there, once.
C11_NoEditsNoSection ==
    input_cursor_context # NULL =>
        LET edits == RecentEditsOf(input_cursor_context)
            headers == LinesEqual(OutputLines, EDITS_HEADER)
        IN  /\ edits = <<>> =>
                  /\ headers = {}
                  /\ Occurrences(cursor_info, EDITS_HEADER) = {}
                  /\ LinesStarting(OutputLines, EDIT_LABEL) = {}
                  /\ Cardinality(LinesEqual(OutputLines, SEPARATOR))
                       = Cardinality(LinesEqual(OutputLines, SELECTED_HEADER))
            /\ edits # <<>> => Cardinality(headers) = 1

\* a context with recentEdits = [] and a selected text was rendered
C11_Witness ==
    /\ input_cursor_context # NULL
    /\ "recentEdits" \in DOMAIN input_cursor_context
    /\ input_cursor_context.recentEdits = <<>>
    /\ LinesEqual(OutputLines, SELECTED_HEADER) # {}

\* C12: for a context with n >= 1 recent edits the section has min(5, n) edit
\* lines, and the i-th is numbered i and shows the position of the element
\* n - i + 1 of the list, whatever the timestamps are.
C12_LastFiveNewestFirst ==
    (input_cursor_context # NULL /\ RecentEditsOf(input_cursor_context) # <<>>) =>
        LET edits == RecentEditsOf(input_cursor_context)
            n == Len(edits)
            listed == SelectSeq(OutputLines, LAMBDA l : StartsWith(l, EDIT_LABEL))
        IN  /\ Len(listed) = Min(NUM_TO_SHOW, n)
            /\ \A i \in 1..Len(listed) :
                  LET start == EDIT_LABEL \o DecimalStr(i) \o POS_OPEN
                                 \o DecimalStr(edits[n - i + 1].from)
                  IN  \/ StartsWith(listed[i], start \o <<"-">>)
                      \/ StartsWith(listed[i], start \o <<")">>)

\* more than five edits were rendered, and the timestamps of the five shown
\* do not follow their order in the list
C12_Witness ==
    /\ input_cursor_context # NULL
    /\ LET edits == RecentEditsOf(input_cursor_context)
           n == Len(edits)
       IN  /\ n > NUM_TO_SHOW
           /\ \E i, j \in (n - NUM_TO_SHOW + 1)..n :
                 i < j /\ edits[i].timestamp > edits[j].timestamp
    /\ Cardinality(LinesStarting(OutputLines, EDIT_LABEL)) = NUM_TO_SHOW

\* C13: the output of a context holds <|fim_prefix|>, <|fim_suffix|> and
\* <|fim_middle|> in this order, each on a line of its own, with exactly the
\* context's prefix between the first two and its suffix between the last two.
C13_DelimitersFenceWindow ==
    input_cursor_context # NULL =>
        \E p1 \in Occurrences(cursor_info, FIM_PREFIX),
           p2 \in Occurrences(cursor_info, FIM_SUFFIX),
           p3 \in Occurrences(cursor_info, FIM_MIDDLE) :
            /\ p1 + Len(FIM_PREFIX) < p2
            /\ p2 + Len(FIM_SUFFIX) < p3
            /\ SubSeq(cursor_info, p1 + Len(FIM_PREFIX) + 1, p2)
                 = <<"\n">> \o input_cursor_context.prefix \o <<"\n">>
            /\ SubSeq(cursor_info, p2 + Len(FIM_SUFFIX) + 1, p3)
                 = <<"\n">> \o input_cursor_context.suffix \o <<"\n">>

\* a context whose prefix and suffix hold delimiter tokens themselves was
\* rendered
C13_Witness ==
    /\ input_cursor_context # NULL
    /\ Occurrences(input_cursor_context.prefix, FIM_SUFFIX) # {}
    /\ Cardinality(Occurrences(cursor_info, FIM_SUFFIX)) = 2
    /\ Cardinality(Occurrences(cursor_info, FIM_MIDDLE)) = 2

\* C14: after any sequence of received values, input$cursor_context is the
\* value received last and cursor_info is its assembly: nothing of an earlier
\* value is left in either.
C14_LatestValueReplaces ==
    /\ input_cursor_context = Last(renderLog).input
    /\ cursor_info = Last(renderLog).output
    /\ cursor_info = Assemble(Last(renderLog).input)

\* a context without selections and recent edits was received after one that
\* had both, and the output shows neither
C14_Witness ==
    /\ Len(renderLog) >= 3
    /\ Last(renderLog).input = POSITION
    /\ LET before == renderLog[Len(renderLog) - 1].input
       IN  /\ before # NULL
           /\ RecentEditsOf(before) # <<>>
           /\ SelectionsOf(before) # <<>>
    /\ Occurrences(cursor_info, EDITS_HEADER) = {}
    /\ Occurrences(cursor_info, SELECTED_HEADER) = {}

\* C15: the contexts handed to onCursorChange come in the order of the
\* notifications they were built from: of two deliveries the earlier one has
\* the timer set by the earlier notification.
C15_DeliveredInCausalOrder ==
    \A i, j \in 1..Len(delivered) :
        i < j => delivered[i].id < delivered[j].id

\* two contexts were delivered, with a replaced timer in between
C15_Witness ==
    /\ Len(delivered) >= 2
    /\ \E c \in cancelled : delivered[1].id < c /\ c < Last(delivered).id

\* C16: a document change of k sub-ranges pushes exactly k records, the i-th
\* with the range and the inserted text of the i-th sub-range and all with
\* the one timestamp read for the notification; they are what the buffer
\* ends with (its cap of 20 leaves the last 20 of them when k is larger).
C16_OneRecordPerSubRange ==
    (hasConsumer /\ lastUpdate.docChanged) =>
        LET changes == lastUpdate.changes
            records == lastUpdate.records
            k == Len(changes)
            n == Len(recentEditsRef)
            kept == Min(k, MAX_EDITS)
        IN  /\ Len(records) = k
            /\ \A i \in 1..Len(records) :
                  /\ records[i].from = changes[i].fromA
                  /\ records[i].to = changes[i].toA
                  /\ records[i].insert = changes[i].inserted
                  /\ records[i].timestamp = lastUpdate.timestamp
            /\ n >= kept
            /\ SubSeq(recentEditsRef, n - kept + 1, n)
                 = SubSeq(records, Len(records) - kept + 1, Len(records))
            /\ \A i \in 1..(n - kept) :
                  recentEditsRef[i].timestamp < lastUpdate.timestamp

\* a change of three sub-ranges was recorded after an earlier change
C16_Witness ==
    /\ lastUpdate.docChanged
    /\ Len(lastUpdate.changes) = 3
    /\ Len(recentEditsRef) > 3
    /\ recentEditsRef[1].timestamp < lastUpdate.timestamp

\* C17: the output has the "SELECTED TEXT:" header if and only if a selection
\* of the context has text; it then has one "Selection" line for each
\* selection with text and none for the others, the line giving
\* fromLine:fromColumn and toLine:toColumn and the text following it.
C17_SelectionsWithTextListed ==
    input_cursor_context # NULL =>
        LET sels == SelectionsOf(input_cursor_context)
            withText == {i \in 1..Len(sels) : sels[i].text # <<>>}
            listed == LinesStarting(OutputLines, SELECTION_LABEL)
        IN  /\ (LinesEqual(OutputLines, SELECTED_HEADER) # {}) <=> (withText # {})
            /\ Cardinality(listed) = Cardinality(withText)
            /\ \A i \in withText :
                  LET text == SplitLines(sels[i].text)
                  IN  \E l \in listed :
                        /\ OutputLines[l] =
                             SELECTION_LABEL \o DecimalStr(i) \o LINE_OPEN
                               \o DecimalStr(sels[i].fromLine) \o <<":">>
                               \o DecimalStr(sels[i].fromColumn) \o ARROW
                               \o DecimalStr(sels[i].toLine) \o <<":">>
                               \o DecimalStr(sels[i].toColumn) \o RANGE_CLOSE
                        /\ l + Len(text) <= Len(OutputLines)
                        /\ SubSeq(OutputLines, l + 1, l + Len(text)) = text

\* a context with two selected texts and a bare cursor between them was
\* rendered
C17_Witness ==
    /\ input_cursor_context # NULL
    /\ LET sels == SelectionsOf(input_cursor_context)
       IN  /\ Len(sels) = 3
           /\ sels[1].text # <<>>
           /\ sels[2].text = <<>>
           /\ sels[3].text # <<>>
    /\ Cardinality(LinesStarting(OutputLines, SELECTION_LABEL)) = 2

\* C18: the output of a context starts with the language line and the
\* line/column line; the fenced block follows, then the selected-text section
\* if there is one, then the recent-edits section if there is one, each
\* section's entries under its own header.
C18_SectionOrder ==
    input_cursor_context # NULL =>
        LET selected == LinesEqual(OutputLines, SELECTED_HEADER)
            recent == LinesEqual(OutputLines, EDITS_HEADER)
        IN  /\ StartsWith(OutputLines[1], LANGUAGE_LABEL)
            /\ StartsWith(OutputLines[2], LINE_LABEL)
            /\ \E a \in LinesEqual(OutputLines, FIM_PREFIX),
                  b \in LinesEqual(OutputLines, FIM_SUFFIX),
                  c \in LinesEqual(OutputLines, FIM_MIDDLE) :
                    /\ 2 < a /\ a < b /\ b < c
                    /\ \A s \in selected : c < s
                    /\ \A e \in recent : c < e
            /\ \A s \in selected : \A e \in recent : s < e
            /\ \A l \in LinesStarting(OutputLines, SELECTION_LABEL) :
                  /\ \E s \in selected : s < l
                  /\ \A e \in recent : l < e
            /\ \A l \in LinesStarting(OutputLines, EDIT_LABEL) :
                  \E e \in recent : e < l

\* a context with a selected text and recent edits was rendered: all four
\* sections are there
C18_Witness ==
    /\ input_cursor_context # NULL
    /\ LinesEqual(OutputLines, SELECTED_HEADER) # {}
    /\ LinesEqual(OutputLines, EDITS_HEADER) # {}
    /\ LinesStarting(OutputLines, SELECTION_LABEL) # {}
    /\ LinesStarting(OutputLines, EDIT_LABEL) # {}

\* C19: in the output of a context every section header is followed by an
\* entry of its section (a "Selection" line, an edit line), every separator
\* belongs to a header, and a field that is empty or absent has no header.
\* The contexts are those of the data model: each recent edit removes or
\* inserts some text.
C19_NoEmptySection ==
    input_cursor_context # NULL =>
        LET n == Len(OutputLines)
            selected == LinesEqual(OutputLines, SELECTED_HEADER)
            recent == LinesEqual(OutputLines, EDITS_HEADER)
        IN  /\ \A s \in selected :
                  s < n /\ StartsWith(OutputLines[s + 1], SELECTION_LABEL)
            /\ \A e \in recent :
                  e < n /\ StartsWith(OutputLines[e + 1], EDIT_LABEL)
            /\ \A p \in LinesEqual(OutputLines, SEPARATOR) :
                  p < n /\ (p + 1) \in (selected \cup recent)
            /\ SelectionsOf(input_cursor_context) = <<>> => selected = {}
            /\ RecentEditsOf(input_cursor_context) = <<>> => recent = {}

\* a context with only bare cursors as selections and an empty list of edits
\* was rendered: its output ends with the fenced block
C19_Witness ==
    /\ input_cursor_context # NULL
    /\ "recentEdits" \in DOMAIN input_cursor_context
    /\ input_cursor_context.recentEdits = <<>>
    /\ SelectionsOf(input_cursor_context) # <<>>
    /\ \A i \in 1..Len(SelectionsOf(input_cursor_context)) :
          SelectionsOf(input_cursor_context)[i].text = <<>>
    /\ Last(OutputLines) = FIM_MIDDLE

\* C20: each edit listed in the recent-edits section takes exactly one line
\* of the output: the section is the header and one line per edit shown, the
\* line having the form of a replacement when remove and insert are both
\* non-empty, of an insertion when only insert is, of a deletion when only
\* remove is.
C20_OneLinePerEdit ==
    (input_cursor_context # NULL /\ RecentEditsOf(input_cursor_context) # <<>>) =>
        LET edits == RecentEditsOf(input_cursor_context)
            n == Len(edits)
            shown == Min(NUM_TO_SHOW, n)
            header == CHOOSE e \in LinesEqual(OutputLines, EDITS_HEADER) : TRUE
        IN  /\ LinesEqual(OutputLines, EDITS_HEADER) # {}
            /\ Len(OutputLines) = header + shown
            /\ \A i \in 1..shown :
                  LET edit == edits[n - i + 1]
                      line == OutputLines[header + i]
                      replaced == Occurrences(line, QUOTE_ARROW) # {}
                      inserted == Occurrences(line, INSERTED_OPEN) # {}
                      deleted == Occurrences(line, DELETED_OPEN) # {}
                  IN  /\ StartsWith(line, EDIT_LABEL \o DecimalStr(i) \o POS_OPEN)
                      /\ line[Len(line)] = "\""
                      /\ (edit.remove # <<>> /\ edit.insert # <<>>) =>
                             replaced /\ ~inserted /\ ~deleted
                      /\ (edit.remove = <<>> /\ edit.insert # <<>>) =>
                             inserted /\ ~replaced /\ ~deleted
                      /\ (edit.remove # <<>> /\ edit.insert = <<>>) =>
                             deleted /\ ~replaced /\ ~inserted

\* the same, for the edits whose texts hold no line break
C20_OneLinePerEditWithoutBreaks ==
    (input_cursor_context # NULL
       /\ \A i \in 1..Len(RecentEditsOf(input_cursor_context)) :
             LET edit == RecentEditsOf(input_cursor_context)[i]
             IN  /\ \A j \in 1..Len(edit.remove) : edit.remove[j] # "\n"
                 /\ \A j \in 1..Len(edit.insert) : edit.insert[j] # "\n")
        => C20_OneLinePerEdit

\* C21: the context built on a notification has the 1-based number of the
\* line that holds the cursor and the cursor's 0-based distance from that
\* line's start, both in the document as it is after the change; for "ab\ncd"
\* with the cursor at 3 these are line 2, column 0, and the prefix is "ab\n".
C21_LineAndColumn ==
    /\ \A t \in timers :
          LET line == t.context.line
              column == t.context.column
          IN  /\ line = 1 + Cardinality({i \in 1..head : doc[i] = "\n"})
              /\ 0 <= column /\ column <= head
              /\ \A i \in (head - column + 1)..head : doc[i] # "\n"
              /\ head - column > 0 => doc[head - column] = "\n"
    /\ (doc = DOC_LINES /\ head = 3) =>
          \A t \in timers :
              /\ t.context.line = 2
              /\ t.context.column = 0
              /\ t.context.prefix = <<"a", "b", "\n">>

\* the cursor was moved to offset 3 of "ab\ncd" and the context is scheduled
C21_Witness ==
    /\ doc = DOC_LINES
    /\ head = 3
    /\ timers # {}
    /\ ~lastUpdate.docChanged

\* C22: the recentEdits of a delivered context is the buffer as it was when
\* the timer fired, oldest entry first, and it stays that: no later
\* notification, whatever it records or evicts, changes a context that has
\* been delivered.
C22_DeliveredEditsAreACopy ==
    [][/\ \A i \in 1..Len(delivered) :
             delivered'[i].context = delivered[i].context
       /\ Len(delivered') > Len(delivered) =>
             Last(delivered').context.recentEdits = recentEditsRef
       /\ \A i \in 1..Len(delivered') :
             LET edits == delivered'[i].context.recentEdits
             IN  \A j, k \in 1..Len(edits) :
                    j < k => edits[j].timestamp <= edits[k].timestamp]_vars

\* a context was delivered with edits, and a later document change has
\* added to the buffer and evicted from it
C22_Witness ==
    /\ delivered # <<>>
    /\ delivered[1].context.recentEdits # <<>>
    /\ lastUpdate.docChanged
    /\ recentEditsRef # <<>>
    /\ \A i \in 1..Len(recentEditsRef) :
          recentEditsRef[i].timestamp = lastUpdate.timestamp
    /\ lastUpdate.timestamp > delivered[1].context.recentEdits[1].timestamp

\* C23: every entry of the buffer has from <= to and a non-empty remove or a
\* non-empty insert: no entry records a change that removes nothing and
\* inserts nothing.
C23_NoNoOpEdits ==
    \A i \in 1..Len(recentEditsRef) :
        LET edit == recentEditsRef[i]
        IN  /\ edit.from <= edit.to
            /\ edit.remove # <<>> \/ edit.insert # <<>>

\* the buffer holds a pure insertion and a pure deletion
C23_Witness ==
    /\ \E i \in 1..Len(recentEditsRef) :
          /\ recentEditsRef[i].from = recentEditsRef[i].to
          /\ recentEditsRef[i].remove = <<>>
          /\ recentEditsRef[i].insert # <<>>
    /\ \E i \in 1..Len(recentEditsRef) :
          /\ recentEditsRef[i].from < recentEditsRef[i].to
          /\ recentEditsRef[i].remove # <<>>
          /\ recentEditsRef[i].insert = <<>>

\* C24: a document change with capture time T evicts only what the policy
\* names: every entry that is among the 20 most recent (the entries held
\* before, then the records of this change) and is at most 30000 ms older
\* than T, an entry exactly 30000 ms old included, is in the buffer when
\* the handler returns.
C24_KeepsWhatPolicyKeeps ==
    [][(hasConsumer /\ notified' = notified + 1 /\ lastUpdate'.docChanged) =>
          LET T == lastUpdate'.timestamp
              all == recentEditsRef \o lastUpdate'.records
              recent == SubSeq(all, Max(1, Len(all) - MAX_EDITS + 1), Len(all))
          IN  \A i \in 1..Len(recent) :
                 T - recent[i].timestamp <= MAX_AGE_MS =>
                    \E j \in 1..Len(recentEditsRef') : recentEditsRef'[j] = recent[i]]_vars

\* the same for the entries less than 30000 ms older than T, and the buffer
\* is then exactly those, in their order
C24_KeepsYoungerThanMaxAge ==
    [][(hasConsumer /\ notified' = notified + 1 /\ lastUpdate'.docChanged) =>
          LET T == lastUpdate'.timestamp
              all == recentEditsRef \o lastUpdate'.records
              recent == SubSeq(all, Max(1, Len(all) - MAX_EDITS + 1), Len(all))
          IN  recentEditsRef'
                = SelectSeq(recent, LAMBDA e : T - e.timestamp < MAX_AGE_MS)]_vars

\* C25 as claimed: the simpler backend lists the last min(3, n) recent edits
\* newest first: its "Edit i" line shows the element n - i + 1 of the list.
C25_SimpleNewestFirst ==
    (input_cursor_context # NULL /\ RecentEditsOf(input_cursor_context) # <<>>) =>
        LET edits == RecentEditsOf(input_cursor_context)
            n == Len(edits)
            listed == SelectSeq(OutputLines, LAMBDA l : StartsWith(l, V_EDIT))
        IN  /\ Len(listed) = Min(3, n)
            /\ \A i \in 1..Len(listed) :
                  listed[i] = V_EDIT \o DecimalStr(i) \o V_POS
                                \o DecimalStr(edits[n - i + 1].from) \o <<"-">>
                                \o DecimalStr(edits[n - i + 1].to)

\* C25 as amended: the simpler backend lists the last min(3, n) recent edits
\* in the order of the list, oldest first: its "Edit i" line shows the
\* element n - min(3, n) + i, so the last "Edit" line is the last element.
C25_SimpleOldestFirst ==
    (input_cursor_context # NULL /\ RecentEditsOf(input_cursor_context) # <<>>) =>
        LET edits == RecentEditsOf(input_cursor_context)
            n == Len(edits)
            shown == Min(3, n)
            listed == SelectSeq(OutputLines, LAMBDA l : StartsWith(l, V_EDIT))
        IN  /\ Len(listed) = shown
            /\ \A i \in 1..Len(listed) :
                  listed[i] = V_EDIT \o DecimalStr(i) \o V_POS
                                \o DecimalStr(edits[n - shown + i].from) \o <<"-">>
                                \o DecimalStr(edits[n - shown + i].to)

\* the simpler backend rendered a list of more than three edits
C25_Witness ==
    /\ input_cursor_context # NULL
    /\ Len(RecentEditsOf(input_cursor_context)) > 3
    /\ Cardinality(LinesStarting(OutputLines, V_EDIT)) = 3
    /\ LinesEqual(OutputLines, V_EDITS_HEADER) # {}

\* a context with the timestamps of its recent edits blanked
WithoutTimestamps(ctx) ==
    IF ctx = NULL \/ "recentEdits" \notin DOMAIN ctx THEN ctx
    ELSE [ctx EXCEPT !.recentEdits =
            [i \in 1..Len(ctx.recentEdits) |->
                [ctx.recentEdits[i] EXCEPT !.timestamp = 0]]]

\* C26: two contexts that differ only in the timestamps of their recent
\* edits are rendered to the same text, character for character.
C26_NoTimestampInOutput ==
    \A i, j \in 1..Len(renderLog) :
        WithoutTimestamps(renderLog[i].input) = WithoutTimestamps(renderLog[j].input)
            => renderLog[i].output = renderLog[j].output

\* two contexts with recent edits that differ in their timestamps only were
\* rendered
C26_Witness ==
    \E i, j \in 1..Len(renderLog) :
        /\ renderLog[i].input # renderLog[j].input
        /\ renderLog[i].input # NULL
        /\ Len(RecentEditsOf(renderLog[i].input)) = 3
        /\ WithoutTimestamps(renderLog[i].input) = WithoutTimestamps(renderLog[j].input)
        /\ Occurrences(renderLog[i].output, EDITS_HEADER) # {}

\* C27: with a consumer, a pending emission leads to the emitter being idle
\* with the context of the last qualifying notification delivered, one
\* delivery for the burst; a firing timer delivers one context and leaves
\* nothing pending, and only a qualifying notification ends the idle state.
C27_PendingLeadsToIdle ==
    /\ (hasConsumer /\ timers # {})
          ~> (/\ timers = {}
              /\ delivered # <<>>
              /\ Last(delivered).id = debounceTimerRef
              /\ Len(delivered) = bursts)
    /\ [][/\ Len(delivered') > Len(delivered) =>
                /\ Len(delivered') = Len(delivered) + 1
                /\ timers' = {}
          /\ (timers = {} /\ timers' # {}) =>
                /\ notified' = notified + 1
                /\ lastUpdate'.selectionSet \/ lastUpdate'.docChanged]_vars

\* two bursts have each been delivered and the emitter is idle
C27_Witness ==
    /\ hasConsumer
    /\ timers = {}
    /\ bursts = 2
    /\ Len(delivered) = 2
    /\ notified = 2

\* C28: the recentEdits a delivered context gets when the timer fires is the
\* buffer as it was when the notification that built its position and text
\* window returned: while a timer is pending the buffer is as that
\* notification left it.
C28_EditsOfTheSameNotification ==
    /\ \A t \in timers :
          /\ t.id = lastUpdate.scheduled.id
          /\ recentEditsRef = lastUpdate.scheduled.buffer
    /\ (delivered # <<>> /\ Last(delivered).id = lastUpdate.scheduled.id) =>
          Last(delivered).context.recentEdits = lastUpdate.scheduled.buffer

\* a context was delivered whose timer was set by a document change that set
\* no selection, after an earlier delivery
C28_Witness ==
    /\ Len(delivered) >= 2
    /\ lastUpdate.docChanged
    /\ ~lastUpdate.selectionSet
    /\ Last(delivered).id = lastUpdate.scheduled.id
    /\ Last(delivered).context.recentEdits # delivered[1].context.recentEdits

\* C29: every entry of the buffer has a remove text exactly as long as its
\* range: Len(remove) = to - from.
C29_RemoveAsLongAsRange ==
    \A i \in 1..Len(recentEditsRef) :
        Len(recentEditsRef[i].remove) = recentEditsRef[i].to - recentEditsRef[i].from

\* the buffer holds an entry for a whole document of six characters replaced
\* by a shorter text
C29_Witness ==
    \E i \in 1..Len(recentEditsRef) :
        /\ recentEditsRef[i].from = 0
        /\ recentEditsRef[i].to = 6
        /\ Len(recentEditsRef[i].remove) = 6
        /\ Len(recentEditsRef[i].insert) = 2

\* C30: a notification without a document change leaves the buffer as it
\* is; if it sets the selection it replaces the pending timer by a new one,
\* and if it does not it leaves the timer as it is as well.
C30_NoDocChangeNoBufferChange ==
    [][(notified' = notified + 1 /\ ~lastUpdate'.docChanged) =>
          /\ recentEditsRef' = recentEditsRef
          /\ ~lastUpdate'.selectionSet =>
                /\ timers' = timers
                /\ debounceTimerRef' = debounceTimerRef
          /\ (lastUpdate'.selectionSet /\ hasConsumer) =>
                /\ Cardinality(timers') = 1
                /\ \A t \in timers' : \A s \in timers : t.id > s.id]_vars

\* an update that changes neither document nor selection was handled while
\* a timer was pending and the buffer held edits
C30_Witness ==
    /\ hasConsumer
    /\ ~lastUpdate.docChanged
    /\ ~lastUpdate.selectionSet
    /\ notified >= 2
    /\ timers # {}
    /\ recentEditsRef # <<>>

====
